---- MODULE Spec2Model ----
(***************************************************************************)
(* A model of generate_icon.py: the icon renderer create_ralph_icon and    *)
(* the module-level loop that renders every entry of the size table and    *)
(* saves it as icon_<label>.png.                                           *)
(*                                                                         *)
(* A bitmap is modelled by the drawing operations that produced it (the    *)
(* rounded rectangle, the font, the text position, the accent lines).      *)
(* The imaging library and the font files are outside the repository:      *)
(* what they report (whether the font loads, the glyph's bounding box,     *)
(* whether a write succeeds, which columns a wide stroke covers) is drawn  *)
(* from bounded sets.                                                      *)
(***************************************************************************)
EXTENDS Integers, Sequences, FiniteSets, TLC

\* Largest pixel dimension the renderer is called with on its own.
MaxSize == 1024
\* Largest left side bearing of the glyph, in sixteenths of the font size.
MaxBearing == 1
\* Most loads of an installed system font that fail in one run.
MaxLoadFailures == 2

VARIABLES
    pc,      \* position of the script
    idx,     \* index of the table entry the loop is at (1-based)
    size,    \* module-level loop variable `size` (0: not yet bound)
    name,    \* module-level loop variable `name` ("": not yet bound)
    icon,    \* module-level variable `icon`: the bitmap last returned
    files,   \* the output directory: file name -> what the file holds
    stdout,  \* the lines printed so far
    log,     \* history: the events of the run, in order
    glyph,   \* the fonts of this machine: whether the system font is
             \* installed, and what they report for the glyph "R"
    loadFailures  \* loads of the installed system font that failed so far

vars == <<pc, idx, size, name, icon, files, stdout, log, glyph, loadFailures>>

----------------------------------------------------------------------------
\* The static table.

\* Mutant: entry 10 mistyped, 80 pixels under the label of a 40 pixel entry.
sizesMistyped ==
    << <<40, "20x20@2x">>, <<60, "20x20@3x">>, <<58, "29x29@2x">>,
       <<87, "29x29@3x">>, <<80, "40x40@2x">>, <<120, "40x40@3x">>,
       <<120, "60x60@2x">>, <<180, "60x60@3x">>, <<20, "20x20@1x">>,
       <<80, "20x20@2x">>, <<29, "29x29@1x">>, <<58, "29x29@2x">>,
       <<40, "40x40@1x">>, <<80, "40x40@2x">>, <<152, "76x76@2x">>,
       <<167, "83.5x83.5@2x">>, <<1024, "1024x1024@1x">> >>

sizes ==
    << <<40, "20x20@2x">>,
       <<60, "20x20@3x">>,
       <<58, "29x29@2x">>,
       <<87, "29x29@3x">>,
       <<80, "40x40@2x">>,
       <<120, "40x40@3x">>,
       <<120, "60x60@2x">>,
       <<180, "60x60@3x">>,
       <<20, "20x20@1x">>,
       <<40, "20x20@2x">>,
       <<29, "29x29@1x">>,
       <<58, "29x29@2x">>,
       <<40, "40x40@1x">>,
       <<80, "40x40@2x">>,
       <<152, "76x76@2x">>,
       <<167, "83.5x83.5@2x">>,
       <<1024, "1024x1024@1x">> >>

NoIcon == [kind |-> "none"]
Raised == [kind |-> "raised"]

Max(a, b) == IF a >= b THEN a ELSE b
Min(a, b) == IF a <= b THEN a ELSE b

----------------------------------------------------------------------------
\* create_ralph_icon(size)

\* Mutant: the radius rounded to the nearest integer.
CornerRadiusRounded(s) == (s + 4) \div 8

\* corner_radius = size // 8
CornerRadius(s) == s \div 8

\* draw.rounded_rectangle([(0, 0), (size-1, size-1)], radius, fill=bg_color)
Background(s) ==
    [box |-> <<0, 0, s - 1, s - 1>>,
     radius |-> CornerRadius(s),
     fill |-> <<52, 120, 246>>]

\* Mutant: round(size * 0.6) instead of int(size * 0.6).
FontSizeRounded(s) == (s * 6 + 5) \div 10

\* font_size = int(size * 0.6): truncation; 0.6 * s is never so far below
\* 6s/10 that the truncation differs from the exact quotient (s <= 2000).
FontSize(s) == (s * 6) \div 10

\* Mutant: no except clause, the failed load propagates.
LoadFontNoFallback(s, fontOk) ==
    IF fontOk /\ (s * 6) \div 10 > 0
    THEN [kind |-> "truetype", size |-> (s * 6) \div 10]
    ELSE Raised

\* try: truetype(Helvetica.ttc, font_size)   except: load_default()
\* fontOk: the system font file can be loaded.  FreeType refuses a size of 0.
\* The fallback font has a fixed size whatever the icon's size.
LoadFont(s, fontOk) ==
    IF fontOk /\ FontSize(s) > 0
    THEN [kind |-> "truetype", size |-> FontSize(s)]
    ELSE [kind |-> "default", size |-> 10]

\* draw.textbbox((0, 0), "R", font): (left, top, right, bottom) of the glyph
\* drawn at the origin.  The metrics scale with the font's size; g gives them
\* in sixteenths of the size.
TextBBox(font, g) ==
    LET l == (font.size * g.lsb) \div 16
        t == (font.size * g.top) \div 16
        w == Max(1, (font.size * g.width) \div 16)
        h == Max(1, (font.size * g.height) \div 16)
    IN  <<l, t, l + w, t + h>>

\* x = (size - text_width) // 2
TextX(s, bbox) == (s - (bbox[3] - bbox[1])) \div 2

\* y = (size - text_height) // 2 - bbox[1]
TextY(s, bbox) == (s - (bbox[4] - bbox[2])) \div 2 - bbox[2]

\* Mutant: size // 20.
LineWidthThick(s) == Max(1, s \div 20)

\* line_width = max(1, size // 40)
LineWidth(s) == Max(1, s \div 40)

\* Mutant: the accent only above 60 (size > 60).
AccentLinesAbove60(s) ==
    IF s > 60
    THEN LET icon_size == s \div 6
             icon_x == s - icon_size - (s \div 12)
             icon_y == s - icon_size - (s \div 12)
         IN  [i \in 1..3 |->
                 LET fork_x == icon_x + (icon_size \div 4) * (i - 1)
                 IN  [from |-> <<fork_x, icon_y>>,
                      to |-> <<fork_x, icon_y + icon_size \div 2>>,
                      fill |-> <<255, 255, 255, 180>>,
                      width |-> LineWidth(s)]]
    ELSE << >>

\* The three fork lines, drawn when size >= 60.
AccentLines(s) ==
    IF s >= 60
    THEN LET icon_size == s \div 6
             icon_x == s - icon_size - (s \div 12)
             icon_y == s - icon_size - (s \div 12)
         IN  [i \in 1..3 |->
                 LET fork_x == icon_x + (icon_size \div 4) * (i - 1)
                 IN  [from |-> <<fork_x, icon_y>>,
                      to |-> <<fork_x, icon_y + icon_size \div 2>>,
                      fill |-> <<255, 255, 255, 180>>,
                      width |-> LineWidth(s)]]
    ELSE << >>

create_ralph_icon(s, fontOk, g) ==
    LET font == LoadFont(s, fontOk)
    IN  IF font = Raised
        THEN Raised
        ELSE LET bbox == TextBBox(font, g)
             IN  [kind |-> "bitmap",
                  size |-> s,
                  background |-> Background(s),
                  font |-> font,
                  bbox |-> bbox,
                  text_at |-> <<TextX(s, bbox), TextY(s, bbox)>>,
                  text_fill |-> <<255, 255, 255, 255>>,
                  lines |-> AccentLines(s)]

----------------------------------------------------------------------------
\* The generation loop.

\* Mutant: the label left out of the file name.
FilenameNoLabel(n) == "icon_" \o ".png"

\* filename = f"icon_{name}.png"
Filename(n) == "icon_" \o n \o ".png"

GlyphProfiles ==
    [installed : BOOLEAN,
     lsb : 0..MaxBearing, top : {3}, width : {10}, height : {12}]

\* The outcomes a load of the system font can have here: it fails whenever
\* the font is not installed; an installed font fails to load at most
\* MaxLoadFailures times in a run.
LoadOutcomes ==
    {ok \in BOOLEAN :
        /\ ok => glyph.installed
        /\ (~ok /\ glyph.installed) => loadFailures < MaxLoadFailures}

Counted(fontOk) ==
    IF ~fontOk /\ glyph.installed THEN loadFailures + 1 ELSE loadFailures

Init ==
    /\ pc = "loop"
    /\ idx = 1
    /\ size = 0
    /\ name = ""
    /\ icon = NoIcon
    /\ files = [f \in {} |-> NoIcon]
    /\ stdout = << >>
    /\ log = << >>
    /\ glyph \in GlyphProfiles
    /\ loadFailures = 0

\* for size, name in sizes:  icon = create_ralph_icon(size)
Render ==
    /\ pc = "loop"
    /\ idx <= Len(sizes)
    /\ \E fontOk \in LoadOutcomes :
         LET r == create_ralph_icon(sizes[idx][1], fontOk, glyph)
         IN  /\ loadFailures' = Counted(fontOk)
             /\ size' = sizes[idx][1]
             /\ name' = sizes[idx][2]
             /\ log' = Append(log, [ev |-> "render", i |-> idx])
             /\ IF r = Raised
                THEN pc' = "aborted" /\ icon' = icon
                ELSE pc' = "save" /\ icon' = r
    /\ UNCHANGED <<idx, files, stdout, glyph>>

\* Mutant: a failed write is swallowed and the loop goes on.
SaveSwallowsError ==
    /\ pc = "save"
    /\ \E ok \in BOOLEAN :
         /\ files' = IF ok
                     THEN (Filename(name) :> [icon |-> icon, complete |-> TRUE]) @@ files
                     ELSE files
         /\ log' = Append(log, [ev |-> IF ok THEN "write" ELSE "write_error", i |-> idx])
    /\ pc' = "print"
    /\ UNCHANGED <<idx, size, name, icon, stdout, glyph, loadFailures>>

\* icon.save(filepath, "PNG"): the write succeeds, or it fails before the
\* file is opened (missing directory, permissions), or it fails after the
\* file was opened for writing, which leaves truncated data under that name.
Save ==
    /\ pc = "save"
    /\ LET filename == Filename(name)
       IN  \E outcome \in {"ok", "failed", "failed_partial"} :
             /\ files' =
                  CASE outcome = "ok" ->
                         (filename :> [icon |-> icon, complete |-> TRUE]) @@ files
                    [] outcome = "failed" -> files
                    [] outcome = "failed_partial" ->
                         (filename :> [icon |-> icon, complete |-> FALSE]) @@ files
             /\ IF outcome = "ok"
                THEN /\ pc' = "print"
                     /\ log' = Append(log, [ev |-> "write", i |-> idx])
                ELSE /\ pc' = "aborted"
                     /\ log' = Append(log, [ev |-> "write_error", i |-> idx])
    /\ UNCHANGED <<idx, size, name, icon, stdout, glyph, loadFailures>>

\* print(f"Generated {filename}")
Progress ==
    /\ pc = "print"
    /\ stdout' = Append(stdout, "Generated " \o Filename(name))
    /\ log' = Append(log, [ev |-> "progress", i |-> idx])
    /\ idx' = idx + 1
    /\ pc' = "loop"
    /\ UNCHANGED <<size, name, icon, files, glyph, loadFailures>>

\* Mutant: the loop left one entry early.
CompleteEarly ==
    /\ pc = "loop"
    /\ idx >= Len(sizes)
    /\ stdout' = Append(stdout, "All icons generated successfully!")
    /\ log' = Append(log, [ev |-> "complete", i |-> idx])
    /\ pc' = "done"
    /\ UNCHANGED <<idx, size, name, icon, files, glyph, loadFailures>>

\* print("All icons generated successfully!")
Complete ==
    /\ pc = "loop"
    /\ idx > Len(sizes)
    /\ stdout' = Append(stdout, "All icons generated successfully!")
    /\ log' = Append(log, [ev |-> "complete", i |-> idx])
    /\ pc' = "done"
    /\ UNCHANGED <<idx, size, name, icon, files, glyph, loadFailures>>

Next == Render \/ Save \/ Progress \/ Complete

Spec == Init /\ [][Next]_vars

----------------------------------------------------------------------------
\* The renderer called on its own with any pixel dimension up to MaxSize.

InitRender ==
    /\ pc = "call"
    /\ idx = 0
    /\ size \in 1..MaxSize
    /\ name = ""
    /\ icon = NoIcon
    /\ files = [f \in {} |-> NoIcon]
    /\ stdout = << >>
    /\ log = << >>
    /\ glyph \in GlyphProfiles
    /\ loadFailures = 0

\* icon = create_ralph_icon(size)
Call ==
    /\ pc = "call"
    /\ \E fontOk \in LoadOutcomes :
         LET r == create_ralph_icon(size, fontOk, glyph)
         IN  /\ loadFailures' = Counted(fontOk)
             /\ IF r = Raised
                THEN pc' = "aborted" /\ icon' = icon
                ELSE pc' = "returned" /\ icon' = r
    /\ UNCHANGED <<idx, size, name, files, stdout, log, glyph>>

NextRender == Call

SpecRender == InitRender /\ [][NextRender]_vars

----------------------------------------------------------------------------
\* draw.line(..., width=w) on a vertical line at column x: the stroke is
\* centred on x and w columns wide.  For an even w the extra column falls on
\* one side; roundLeft says which.
StrokeLo(x, w, roundLeft) ==
    IF roundLeft THEN x - (w \div 2) ELSE x - ((w - 1) \div 2)

StrokeHi(x, w, roundLeft) ==
    IF roundLeft THEN x + ((w - 1) \div 2) ELSE x + (w \div 2)

----------------------------------------------------------------------------
\* Helpers of the properties.

TableIndices == 1..Len(sizes)

\* The file names the table yields.
TableFiles == {Filename(sizes[i][2]) : i \in TableIndices}

\* The event a run without failures logs at position j: render, write and
\* progress of entry 1, then of entry 2, ..., then the completion.
ExpectedEvent(j) ==
    IF j > 3 * Len(sizes)
    THEN [ev |-> "complete", i |-> Len(sizes) + 1]
    ELSE [ev |-> <<"render", "write", "progress">>[((j - 1) % 3) + 1],
          i |-> ((j - 1) \div 3) + 1]

\* The lines a run without failures prints.
ExpectedStdout ==
    [j \in 1..(Len(sizes) + 1) |->
        IF j <= Len(sizes)
        THEN "Generated " \o "icon_" \o sizes[j][2] \o ".png"
        ELSE "All icons generated successfully!"]

CountEvents(kind) == Cardinality({j \in 1..Len(log) : log[j].ev = kind})

\* The directory, by pixel dimension, that writing the entries in the given
\* order (a sequence of table indices) leaves.
RECURSIVE DimsAfter(_)
DimsAfter(order) ==
    IF order = << >>
    THEN [f \in {} |-> 0]
    ELSE LET e == sizes[order[Len(order)]]
         IN  (Filename(e[2]) :> e[1]) @@ DimsAfter(SubSeq(order, 1, Len(order) - 1))

\* Orders other than the table's: reversed, rotated, two entries exchanged.
OtherOrders ==
    LET n == Len(sizes)
    IN  {[j \in 1..n |-> n + 1 - j]}
        \cup {[j \in 1..n |-> ((j + r - 1) % n) + 1] : r \in 1..(n - 1)}
        \cup {[j \in 1..n |-> IF j = a THEN b ELSE IF j = b THEN a ELSE j] :
                 a \in 1..n, b \in 1..n}

----------------------------------------------------------------------------
\* C1 as stated: a run in which no write fails leaves 17 distinct files, one
\* per table entry.
C1_SeventeenFiles ==
    pc = "done" => Cardinality(DOMAIN files) = Len(sizes)

\* C1 amended: a run in which no write fails performs 17 writes and leaves
\* exactly 14 distinct files icon_<label>.png, one per distinct label: the
\* labels 20x20@2x, 29x29@2x and 40x40@2x each occur twice in the table.
C1_FourteenFiles ==
    pc = "done" =>
        /\ CountEvents("write") = 17
        /\ Cardinality(DOMAIN files) = 14
        /\ DOMAIN files = TableFiles

C1_Witness ==
    pc = "done" /\ CountEvents("write") = 17 /\ Cardinality(DOMAIN files) = 14

\* C2: the entries are processed one after the other in table order: the log
\* is render(i), write(i), progress(i) for i = 1, 2, ... with nothing in
\* between, each entry is rendered once, and the completion is logged once,
\* right after the progress of the last entry.
C2_Sequential ==
    /\ \A j \in 1..Len(log) :
          \/ log[j] = ExpectedEvent(j)
          \/ /\ j = Len(log)
             /\ log[j].ev = "write_error"
             /\ ExpectedEvent(j) = [ev |-> "write", i |-> log[j].i]
    /\ pc = "done" =>
          /\ Len(log) = 3 * Len(sizes) + 1
          /\ CountEvents("render") = Len(sizes)
          /\ CountEvents("complete") = 1
          /\ log[Len(log) - 1] = [ev |-> "progress", i |-> Len(sizes)]
    /\ CountEvents("complete") > 0 => pc = "done"

C2_Witness ==
    pc = "done" /\ Len(log) = 52 /\ CountEvents("render") = 17

\* C3 as stated: when the write of entry k fails the run stops there, with no
\* progress line for k, no completion, no retry, and every file written
\* before is left as it was.
C3_AbortLeavesAllFiles ==
    /\ [](/\ CountEvents("write_error") > 0 => pc = "aborted"
          /\ pc = "aborted" =>
                /\ log[Len(log)] = [ev |-> "write_error", i |-> idx]
                /\ CountEvents("write_error") = 1
                /\ CountEvents("complete") = 0
                /\ \A j \in 1..Len(log) : log[j].i <= idx
                /\ \A j \in 1..Len(log) : log[j].ev = "progress" => log[j].i < idx
                /\ Len(stdout) = idx - 1)
    /\ [][pc = "aborted" => UNCHANGED vars]_vars
    /\ [][(pc = "save" /\ pc' = "aborted") =>
            \A f \in DOMAIN files : f \in DOMAIN files' /\ files'[f] = files[f]]_vars

\* C3 amended: when the write of entry k fails the run stops there: nothing
\* happens afterwards (no later render or write, no retry), no progress line
\* for k and no completion is printed, and every file written before under
\* another name than entry k's is left as it was.  The file under entry k's
\* own name may hold truncated data, also when an earlier entry with the
\* same label (entries 10, 12, 14) had written it.
C3_AbortKeepsOtherFiles ==
    /\ [](/\ CountEvents("write_error") > 0 => pc = "aborted"
          /\ pc = "aborted" =>
                /\ log[Len(log)] = [ev |-> "write_error", i |-> idx]
                /\ CountEvents("write_error") = 1
                /\ CountEvents("complete") = 0
                /\ \A j \in 1..Len(log) : log[j].i <= idx
                /\ \A j \in 1..Len(log) : log[j].ev = "progress" => log[j].i < idx
                /\ Len(stdout) = idx - 1)
    /\ [][pc = "aborted" => UNCHANGED vars]_vars
    /\ [][(pc = "save" /\ pc' = "aborted") =>
            \A f \in DOMAIN files :
                /\ f \in DOMAIN files'
                /\ f # Filename(name) => files'[f] = files[f]]_vars

C3_Witness ==
    /\ pc = "aborted"
    /\ idx = 10
    /\ Cardinality(DOMAIN files) = 9
    /\ ~files[Filename(name)].complete

\* C4: a failure to load the system font never aborts the run: every render
\* returns a bitmap, with the fallback font when the load failed; only a
\* failed write aborts; and a run without failed writes prints the same lines
\* and writes the same files whichever font loads failed.
C4_FontFallback ==
    /\ pc = "aborted" => log[Len(log)].ev = "write_error"
    /\ pc \in {"save", "print"} =>
          /\ icon.kind = "bitmap"
          /\ icon.size = size
          /\ icon.font.kind \in {"truetype", "default"}
    /\ \A f \in DOMAIN files : files[f].icon.kind = "bitmap"
    /\ pc = "done" =>
          /\ stdout = ExpectedStdout
          /\ DOMAIN files = TableFiles
          /\ \A j \in 1..Len(log) : log[j] = ExpectedEvent(j)

C4_Witness ==
    /\ pc = "done"
    /\ stdout = ExpectedStdout
    /\ \E f \in DOMAIN files : files[f].icon.font.kind = "default"
    /\ \E f \in DOMAIN files : files[f].icon.font.kind = "truetype"

----------------------------------------------------------------------------
\* Properties of the renderer.

\* The accent region of an icon of dimension s: a square of side s div 6
\* whose origin is s div 12 from the bottom and right edges.
RegionSide(s) == s \div 6
RegionOrigin(s) == s - RegionSide(s) - (s \div 12)

\* The line ln of an icon of dimension s puts at least one pixel of the
\* accent colour inside the accent region and the canvas, whichever side an
\* even stroke rounds to.
AccentPixelInRegion(ln, s) ==
    /\ ln.fill = <<255, 255, 255, 180>>
    /\ \A r \in BOOLEAN :
          /\ Max(Max(StrokeLo(ln.from[1], ln.width, r), RegionOrigin(s)), 0)
                <= Min(Min(StrokeHi(ln.from[1], ln.width, r),
                           RegionOrigin(s) + RegionSide(s)), s - 1)
          /\ Max(Max(ln.from[2], RegionOrigin(s)), 0)
                <= Min(Min(ln.to[2], RegionOrigin(s) + RegionSide(s)), s - 1)

\* C5: the accent is drawn if and only if the pixel dimension is at least 60:
\* below 60 no line is drawn, from 60 on lines are drawn and leave at least
\* one pixel of colour (255,255,255,180) in the bottom-right accent region.
C5_AccentThreshold ==
    pc = "returned" =>
        /\ size < 60 => icon.lines = << >>
        /\ size >= 60 =>
              /\ Len(icon.lines) > 0
              /\ \E i \in DOMAIN icon.lines : AccentPixelInRegion(icon.lines[i], size)

C5_Witness ==
    /\ pc = "returned"
    /\ size = 60
    /\ Len(icon.lines) = 3
    /\ AccentPixelInRegion(icon.lines[1], 60)

\* C6: at pixel dimension 120 the centre of the glyph's rendered horizontal
\* extent, x + left .. x + right, is within one pixel of 60, whatever
\* bounding box the font reports.  (Twice the centre is compared with the
\* dimension, to stay in the integers.)
C6_GlyphCentred ==
    (pc = "returned" /\ size = 120) =>
        LET twice == 2 * icon.text_at[1] + icon.bbox[1] + icon.bbox[3]
        IN  twice - size <= 2 /\ size - twice <= 2

\* C7 as stated: the size requested from the system font is
\* round(pixel_dimension * 0.6), for every pixel dimension of the table.
C7_FontSizeRounded ==
    (/\ pc = "returned"
     /\ \E i \in TableIndices : sizes[i][1] = size
     /\ icon.font.kind = "truetype") =>
        icon.font.size = (6 * size + 5) \div 10

\* C7 amended: the size requested from the system font is int(size * 0.6),
\* six tenths of the pixel dimension rounded down; for 58 that is 34, where
\* rounding to the nearest integer gives 35.
C7_FontSizeTruncated ==
    (pc = "returned" /\ icon.font.kind = "truetype") =>
        /\ 10 * icon.font.size <= 6 * size
        /\ 6 * size < 10 * (icon.font.size + 1)
        /\ size = 58 => icon.font.size = 34

C7_Witness ==
    pc = "returned" /\ size = 58 /\ icon.font.kind = "truetype" /\ icon.font.size = 34

\* C8: the background rectangle spans (0,0) to (size-1, size-1) and its
\* corner radius is the pixel dimension divided by 8, rounded down: 128 for
\* 1024 and 2 for 20.
C8_CornerRadius ==
    pc = "returned" =>
        /\ icon.background.box = <<0, 0, size - 1, size - 1>>
        /\ 8 * icon.background.radius <= size
        /\ size < 8 * (icon.background.radius + 1)
        /\ size = 1024 => icon.background.radius = 128
        /\ size = 20 => icon.background.radius = 2

C8_Witness ==
    /\ pc = "returned"
    /\ size = 20
    /\ icon.background.radius = 2
    /\ icon.background.box = <<0, 0, 19, 19>>

\* The geometry of the accent that C9 states, but for the stroke's extent.
AccentGeometry ==
    LET side == RegionSide(size)
        o == RegionOrigin(size)
        ln == icon.lines
    IN  /\ Len(ln) = 3
        /\ \A i \in 1..3 :
              /\ ln[i].from[1] = ln[i].to[1]
              /\ o <= ln[i].from[1] /\ ln[i].from[1] <= o + side
              /\ ln[i].from[2] = o
              /\ ln[i].to[2] = o + side \div 2
              /\ ln[i].to[2] <= o + side
              /\ ln[i].width = Max(1, size \div 40)
        /\ ln[2].from[1] - ln[1].from[1] = ln[3].from[1] - ln[2].from[1]
        /\ ln[2].from[1] > ln[1].from[1]

\* The pixels the strokes cover lie in the canvas, and in the accent region
\* widened to the left by `slack` columns, when even strokes round as r says.
StrokesWithin(slack, r) ==
    LET side == RegionSide(size)
        o == RegionOrigin(size)
    IN  \A i \in DOMAIN icon.lines :
            LET ln == icon.lines[i]
                lo == StrokeLo(ln.from[1], ln.width, r)
                hi == StrokeHi(ln.from[1], ln.width, r)
            IN  /\ o - slack <= lo /\ hi <= o + side
                /\ 0 <= lo /\ hi <= size - 1
                /\ 0 <= ln.from[2] /\ ln.to[2] <= size - 1

\* C9 as stated: for every pixel dimension from 60 on the accent is three
\* evenly spaced vertical segments inside the region, from icon_y to
\* icon_y + side div 2, of width max(1, s div 40), and every pixel a stroke
\* covers lies inside the region and the canvas.
C9_StrokesInsideRegion ==
    (pc = "returned" /\ size >= 60) =>
        /\ AccentGeometry
        /\ \E r \in BOOLEAN : StrokesWithin(0, r)

\* C9 amended: for every pixel dimension from 60 on the accent is three
\* evenly spaced vertical segments whose centre lines lie inside the region,
\* from icon_y to icon_y + side div 2, of width max(1, s div 40); every pixel
\* a stroke covers lies inside the canvas, and inside the region but for the
\* leftmost stroke, which is centred on the region's left edge and reaches
\* up to (width div 2) columns to the left of it.
C9_StrokesNearRegion ==
    (pc = "returned" /\ size >= 60) =>
        /\ AccentGeometry
        /\ \A r \in BOOLEAN : StrokesWithin(icon.lines[1].width \div 2, r)

C9_Witness ==
    /\ pc = "returned"
    /\ size = 120
    /\ Len(icon.lines) = 3
    /\ icon.lines[1].width = 3
    /\ \A r \in BOOLEAN :
          StrokeLo(icon.lines[1].from[1], icon.lines[1].width, r) < RegionOrigin(120)

====
